---- MODULE Spec2Model ----
(***************************************************************************)
(* Model of two pymeasure instrument drivers and of the descriptor engine  *)
(* they are declared with:                                                 *)
(*   - ThorlabsPM100USB (instruments/thorlabs/thorlabspm100usb.py): sensor *)
(*     flag decoding, per-instance capability gating, the wavelength       *)
(*     setter with its cached bounds, the error-checked range controls;    *)
(*   - AFG3152C and AFG3152CChannel (instruments/tektronix/afg3152c.py):   *)
(*     channel command prefixing, waveform(), the shape value map.         *)
(* The transport is modelled as the list of (command, reply) pairs it      *)
(* carried, the shape pymeasure.test.expected_protocol compares against.   *)
(***************************************************************************)
EXTENDS Integers, Sequences, FiniteSets, TLC

VARIABLES
    classDisabled,  \* names bound to a _Disabled object in ThorlabsPM100USB's own namespace
    inst,           \* ThorlabsPM100USB instances: construction state, flags, private subclass, caches
    log,            \* per ThorlabsPM100USB instance: the (command, reply) pairs its transport carried
    last,           \* per ThorlabsPM100USB instance: the most recent operation and its outcome
    ops,            \* number of operations issued after construction (bounded exploration)
    afgLog,         \* the AFG3152C transport: every write and read it carried, in order
    chan,           \* per AFG3152C channel: the operation its caller is in, and how far it got
    serialized      \* whether the callers of the two channels take turns (one thread, or a caller's lock)

pmVars == <<classDisabled, inst, log, last>>

afgVars == <<afgLog, chan, serialized>>

vars == <<classDisabled, inst, log, last, ops, afgLog, chan, serialized>>

(***************************************************************************)
(* Bounds of the exploration.                                              *)
(***************************************************************************)
NumInstances == 2      \* ThorlabsPM100USB instances alive at once
MaxOps == 3            \* operations after construction, descriptor exploration
MaxWavelengthOps == 4  \* operations after construction, wavelength exploration
MaxGatingOps == 1      \* attribute accesses, two-instance exploration
MaxFlagValue == 511    \* largest flag word the device reports
MaxChannelOps == 2     \* operations entered on the AFG3152C channels, full menu
MaxInterleavedOps == 2 \* operations entered on the AFG3152C channels by two callers
MaxMapOps == 2         \* operations on the mapped descriptors

Insts == 1..NumInstances

(***************************************************************************)
(* Text conversions, computed digit by digit.                              *)
(***************************************************************************)
Digits == <<"0", "1", "2", "3", "4", "5", "6", "7", "8", "9">>

RECURSIVE IntToStr(_)
\* str(n) / "%d" % n for an integer n
IntToStr(n) ==
    IF n < 0 THEN "-" \o IntToStr(-n)
    ELSE IF n < 10 THEN Digits[n + 1]
    ELSE IntToStr(n \div 10) \o Digits[(n % 10) + 1]

CharAt(s, k) == SubSeq(s, k, k)

IsDigit(c) == \E d \in 1..10 : Digits[d] = c

DigitVal(c) == (CHOOSE d \in 1..10 : Digits[d] = c) - 1

IsNumeric(s) ==
    /\ Len(s) > 0
    /\ \/ \A k \in 1..Len(s) : IsDigit(CharAt(s, k))
       \/ /\ Len(s) > 1
          /\ CharAt(s, 1) = "-"
          /\ \A k \in 2..Len(s) : IsDigit(CharAt(s, k))

RECURSIVE DigitsToInt(_, _)
DigitsToInt(s, acc) ==
    IF Len(s) = 0 THEN acc
    ELSE DigitsToInt(SubSeq(s, 2, Len(s)), acc * 10 + DigitVal(CharAt(s, 1)))

\* the number a reply field casts to (fields that are whole numbers)
StrToInt(s) ==
    IF CharAt(s, 1) = "-" THEN 0 - DigitsToInt(SubSeq(s, 2, Len(s)), 0)
    ELSE DigitsToInt(s, 0)

RECURSIVE BinDigits(_)
\* bin(n) without the prefix
BinDigits(n) == IF n < 2 THEN Digits[n + 1] ELSE BinDigits(n \div 2) \o Digits[(n % 2) + 1]

RECURSIVE PadLeft(_, _)
PadLeft(s, width) == IF Len(s) >= width THEN s ELSE PadLeft("0" \o s, width)

RECURSIVE ReverseStr(_)
ReverseStr(s) == IF Len(s) = 0 THEN "" ELSE ReverseStr(SubSeq(s, 2, Len(s))) \o CharAt(s, 1)

StartsWith(s, p) == Len(s) >= Len(p) /\ SubSeq(s, 1, Len(p)) = p

(***************************************************************************)
(* ThorlabsPM100USB: sensor flags.                                         *)
(***************************************************************************)
FlagWidth == 9

\* DecodeFlags with the string left in most-significant-first order
DecodeFlags_unreversed(field) ==
    LET bits == PadLeft(BinDigits(StrToInt(field)), FlagWidth)
    IN  [k \in 1..Len(bits) |-> CharAt(bits, k) = "1"]

\* format(int(_flags_str), "09b")[::-1], then [x == "1" for x in _flags_str]
DecodeFlags(field) ==
    LET bits == ReverseStr(PadLeft(BinDigits(StrToInt(field)), FlagWidth))
    IN  [k \in 1..Len(bits) |-> CharAt(bits, k) = "1"]

NoFlags == [k \in 1..FlagWidth |-> FALSE]

\* the nine-name tuple assignment of _set_flags
FlagNames ==
    <<"is_power_sensor", "is_energy_sensor", "_d4", "_d8", "response_settable",
      "wavelength_settable", "tau_settable", "_d128", "has_temperature_sensor">>

FlagIndex(name) == CHOOSE k \in 1..Len(FlagNames) : FlagNames[k] = name

Flag(i, name) == inst[i].flags[FlagIndex(name)]

(***************************************************************************)
(* The descriptor engine: Instrument.control / Instrument.measurement,     *)
(* values(), the validators and the post-write error check.                *)
(***************************************************************************)
RECURSIVE SplitComma(_, _)
\* values(): the reply split at every separator
SplitComma(s, cur) ==
    IF Len(s) = 0 THEN <<cur>>
    ELSE IF CharAt(s, 1) = "," THEN <<cur>> \o SplitComma(SubSeq(s, 2, Len(s)), "")
    ELSE SplitComma(SubSeq(s, 2, Len(s)), cur \o CharAt(s, 1))

values(reply) == SplitComma(reply, "")

ConversionLetters == {"d", "g", "e", "f", "s"}

PercentAt(t) == CHOOSE k \in 1..Len(t) : CharAt(t, k) = "%"

ConversionAt(t) ==
    CHOOSE k \in 1..Len(t) :
        /\ k > PercentAt(t)
        /\ CharAt(t, k) \in ConversionLetters
        /\ \A j \in (PercentAt(t) + 1)..(k - 1) : CharAt(t, j) \notin ConversionLetters

RECURSIVE PadRight(_, _)
PadRight(s, width) == IF Len(s) >= width THEN s ELSE PadRight(s \o "0", width)

\* "%e" % n for a whole number 0 <= n < 10^7: d.dddddde+XX
FormatE(n) ==
    LET ds == IntToStr(n)
        ex == Len(ds) - 1
    IN  CharAt(ds, 1) \o "." \o PadRight(SubSeq(ds, 2, Len(ds)), 6)
            \o "e+" \o PadLeft(IntToStr(ex), 2)

\* one conversion of the % operator; n is the numeric operand, s the string operand.
\* Whole numbers below 10^6 print under %g as under %d.
Convert(conv, n, s) ==
    CASE conv = "%d" -> IntToStr(n)
      [] conv = "%g" -> IntToStr(n)
      [] conv = "%e" -> FormatE(n)
      [] conv = "%.3f" -> IntToStr(n) \o ".000"
      [] conv = "%s" -> s

\* template % value
Format(t, n, s) ==
    SubSeq(t, 1, PercentAt(t) - 1)
        \o Convert(SubSeq(t, PercentAt(t), ConversionAt(t)), n, s)
        \o SubSeq(t, ConversionAt(t) + 1, Len(t))

\* strict_range(value, values): value unchanged, or a ValueError
strict_range(value, low, high) == value >= low /\ value <= high

NoCommand == ""

\* a transport exchange as expected_protocol lists it: reply "" is None (a plain write)
\* val: the logical value a mapped descriptor was given or gave back, as Python prints it
Exchange(cmd, reply, by) == [cmd |-> cmd, reply |-> reply, by |-> by, val |-> ""]

PyBool(b) == IF b THEN "True" ELSE "False"

CheckErrorsCommand == "SYST:ERR?"

\* the error code of a 'SYST:ERR?' reply '<code>,<message>'
ErrorCode(reply) == StrToInt(values(reply)[1])

(***************************************************************************)
(* ThorlabsPM100USB: the declared descriptors.                             *)
(***************************************************************************)
Descriptor(get, set, check, mapped) ==
    [get |-> get, set |-> set, check_set_errors |-> check, map_values |-> mapped]

wavelength_min == Descriptor("SENS:CORR:WAV? MIN", NoCommand, FALSE, FALSE)

wavelength_max == Descriptor("SENS:CORR:WAV? MAX", NoCommand, FALSE, FALSE)

power == Descriptor("MEAS:POW?", NoCommand, FALSE, FALSE)

\* power_range declared without check_set_errors
power_range_unchecked == Descriptor("SENS:POW:RANG?", "SENS:POW:RANG %g", FALSE, FALSE)

power_range == Descriptor("SENS:POW:RANG?", "SENS:POW:RANG %g", TRUE, FALSE)

power_auto_range == Descriptor("SENS:POW:RANG:AUTO?", "SENS:POW:RANG:AUTO %d", FALSE, TRUE)

energy == Descriptor("MEAS:ENER?", NoCommand, FALSE, FALSE)

energy_range == Descriptor("SENS:ENER:RANG?", "SENS:ENER:RANG %g", TRUE, FALSE)

\* values={True: 1, False: 0} of power_auto_range
AutoRangeValues(b) == IF b THEN 1 ELSE 0

PMAttrs ==
    {"wavelength_min", "wavelength_max", "power", "power_range", "power_auto_range",
     "energy", "energy_range"}

PMDescriptor(attr) ==
    CASE attr = "wavelength_min" -> wavelength_min
      [] attr = "wavelength_max" -> wavelength_max
      [] attr = "power" -> power
      [] attr = "power_range" -> power_range
      [] attr = "power_auto_range" -> power_auto_range
      [] attr = "energy" -> energy
      [] attr = "energy_range" -> energy_range

DISABLE_FOR_POWER_SENSOR == {"energy", "energy_range"}

DISABLE_FOR_ENERGY_SENSOR == {"power", "power_range", "power_auto_range"}

(***************************************************************************)
(* ThorlabsPM100USB: construction and capability gating.                   *)
(***************************************************************************)
\* _disable_properties binding the _Disabled objects on ThorlabsPM100USB itself
_disable_properties_on_class(is_power_sensor, is_energy_sensor, cls) ==
    LET disable ==
            (IF is_power_sensor THEN DISABLE_FOR_POWER_SENSOR ELSE {})
                \cup (IF is_energy_sensor THEN DISABLE_FOR_ENERGY_SENSOR ELSE {})
    IN  [cls |-> cls \cup disable, own |-> {}]

\* _disable_properties with the two lists exchanged
_disable_properties_swapped(is_power_sensor, is_energy_sensor, cls) ==
    LET disable ==
            (IF is_power_sensor THEN DISABLE_FOR_ENERGY_SENSOR ELSE {})
                \cup (IF is_energy_sensor THEN DISABLE_FOR_POWER_SENSOR ELSE {})
    IN  [cls |-> cls, own |-> disable]

\* _disable_properties: the names to disable go into the namespace of a new
\* subclass that becomes the instance's __class__; the namespace of
\* ThorlabsPM100USB itself (cls) is left as it is.
_disable_properties(is_power_sensor, is_energy_sensor, cls) ==
    LET disable ==
            (IF is_power_sensor THEN DISABLE_FOR_POWER_SENSOR ELSE {})
                \cup (IF is_energy_sensor THEN DISABLE_FOR_ENERGY_SENSOR ELSE {})
    IN  [cls |-> cls, own |-> disable]

\* Attribute lookup along type(instance).__mro__: the private subclass first,
\* then ThorlabsPM100USB.
Lookup(i, attr) ==
    IF attr \in inst[i].own THEN "disabled"
    ELSE IF attr \in classDisabled THEN "disabled"
    ELSE "descriptor"

NewInstance ==
    [state |-> "new", sensor_name |-> "", flags |-> NoFlags, own |-> {},
     hasMin |-> FALSE, _wavelength_min |-> 0, hasMax |-> FALSE, _wavelength_max |-> 0]

NoOp == [op |-> "none", attr |-> "", outcome |-> "", at |-> 0, n |-> 0, b |-> FALSE]

Outcome(op, attr, outcome, at, n, b) ==
    [op |-> op, attr |-> attr, outcome |-> outcome, at |-> at, n |-> n, b |-> b]

IdnCommand == "SYST:SENSOR:IDN?"

\* the six comma-separated fields of a sensor identity reply
IdnReply(name, f) == name \o ",SerialNum,29-APR-2025,1,0," \o IntToStr(f)

\* __init__: _set_flags, then _disable_properties
Construct(i, name, f) ==
    /\ inst[i].state = "new"
    /\ LET reply == IdnReply(name, f)
           response == values(reply)
           flags == DecodeFlags(response[6])
           gate == _disable_properties(flags[1], flags[2], classDisabled)
       IN  /\ log' = [log EXCEPT ![i] = Append(@, Exchange(IdnCommand, reply, "__init__"))]
           /\ IF response[1] = "no sensor"
              THEN /\ inst' = [inst EXCEPT ![i].state = "failed"]
                   /\ last' = [last EXCEPT ![i] = Outcome("init", "", "OSError", 0, 0, FALSE)]
                   /\ UNCHANGED <<classDisabled, afgVars>>
              ELSE IF Len(flags) # Len(FlagNames)
              THEN /\ inst' = [inst EXCEPT ![i].state = "failed",
                                           ![i].sensor_name = response[1]]
                   /\ last' = [last EXCEPT ![i] = Outcome("init", "", "ValueError", 0, f, FALSE)]
                   /\ UNCHANGED <<classDisabled, afgVars>>
              ELSE /\ inst' = [inst EXCEPT ![i].state = "ready",
                                           ![i].sensor_name = response[1],
                                           ![i].flags = flags,
                                           ![i].own = gate.own]
                   /\ classDisabled' = gate.cls
                   /\ last' = [last EXCEPT ![i] = Outcome("init", "", "ok", 0, f, FALSE)]
    /\ UNCHANGED <<ops, afgVars>>

Ready(i) == inst[i].state = "ready"

(***************************************************************************)
(* ThorlabsPM100USB: descriptor reads and writes.                          *)
(***************************************************************************)
\* reading a declared attribute; reply is what the device answers
ReadAttr(i, attr, reply) ==
    /\ Ready(i)
    /\ ops' = ops + 1
    /\ LET d == PMDescriptor(attr)
           at == Len(log[i])
           v == StrToInt(values(reply)[1])
       IN  IF Lookup(i, attr) = "disabled"
           THEN /\ last' = [last EXCEPT ![i] = Outcome("get", attr, "AttributeError", at, 0, FALSE)]
                /\ UNCHANGED log
           ELSE /\ log' = [log EXCEPT ![i] =
                       Append(@, [Exchange(d.get, reply, attr) EXCEPT !.val =
                                      IF d.map_values /\ \E k \in BOOLEAN : AutoRangeValues(k) = v
                                      THEN PyBool(CHOOSE k \in BOOLEAN : AutoRangeValues(k) = v)
                                      ELSE ""])]
                /\ IF ~d.map_values
                   THEN last' = [last EXCEPT ![i] = Outcome("get", attr, "ok", at, v, FALSE)]
                   ELSE IF \E k \in BOOLEAN : AutoRangeValues(k) = v
                   THEN last' = [last EXCEPT ![i] =
                            Outcome("get", attr, "ok", at, v,
                                    CHOOSE k \in BOOLEAN : AutoRangeValues(k) = v)]
                   ELSE last' = [last EXCEPT ![i] = Outcome("get", attr, "KeyError", at, v, FALSE)]
    /\ UNCHANGED <<classDisabled, inst, afgVars>>

\* writing a numeric attribute; err is what the device answers to the error query
WriteAttr(i, attr, v, err) ==
    /\ Ready(i)
    /\ ops' = ops + 1
    /\ LET d == PMDescriptor(attr)
           at == Len(log[i])
           sent == Append(log[i], Exchange(Format(d.set, v, ""), "", attr))
       IN  IF Lookup(i, attr) = "disabled"
           THEN /\ last' = [last EXCEPT ![i] = Outcome("set", attr, "AttributeError", at, v, FALSE)]
                /\ UNCHANGED log
           ELSE IF d.set = NoCommand
           THEN /\ last' = [last EXCEPT ![i] = Outcome("set", attr, "ReadOnly", at, v, FALSE)]
                /\ UNCHANGED log
           ELSE IF ~d.check_set_errors
           THEN /\ log' = [log EXCEPT ![i] = sent]
                /\ last' = [last EXCEPT ![i] = Outcome("set", attr, "ok", at, v, FALSE)]
           ELSE /\ log' = [log EXCEPT ![i] = Append(sent, Exchange(CheckErrorsCommand, err, attr))]
                /\ last' = [last EXCEPT ![i] =
                       Outcome("set", attr,
                               IF ErrorCode(err) # 0 THEN "InstrumentError" ELSE "ok",
                               at, v, FALSE)]
    /\ UNCHANGED <<classDisabled, inst, afgVars>>

\* writing power_auto_range: strict_discrete_set over the keys, then the map
WriteAutoRange(i, b) ==
    /\ Ready(i)
    /\ ops' = ops + 1
    /\ LET attr == "power_auto_range"
           at == Len(log[i])
       IN  IF Lookup(i, attr) = "disabled"
           THEN /\ last' = [last EXCEPT ![i] = Outcome("set", attr, "AttributeError", at, 0, b)]
                /\ UNCHANGED log
           ELSE /\ log' = [log EXCEPT ![i] =
                       Append(@, [Exchange(Format(power_auto_range.set, AutoRangeValues(b), ""),
                                           "", attr) EXCEPT !.val = PyBool(b)])]
                /\ last' = [last EXCEPT ![i] = Outcome("set", attr, "ok", at, 0, b)]
    /\ UNCHANGED <<classDisabled, inst, afgVars>>

\* zero()
Zero(i) ==
    /\ Ready(i)
    /\ ops' = ops + 1
    /\ log' = [log EXCEPT ![i] = Append(@, Exchange("SENS:CORR:COLL:ZERO", "", "zero"))]
    /\ last' = [last EXCEPT ![i] = Outcome("call", "zero", "ok", Len(log[i]), 0, FALSE)]
    /\ UNCHANGED <<classDisabled, inst, afgVars>>

(***************************************************************************)
(* ThorlabsPM100USB: the wavelength property.                              *)
(***************************************************************************)
WavelengthGet == "SENSE:CORR:WAV?"

WavelengthSet(value) == "SENSE:CORR:WAV " \o IntToStr(value)

\* the setter asking for both bounds on every write
BoundQueries_uncached(hasMin, hasMax, lo, hi) ==
    <<Exchange(wavelength_min.get, lo, "wavelength"),
      Exchange(wavelength_max.get, hi, "wavelength")>>

\* the bounds the setter queries: only the ones no earlier write has stored
BoundQueries(hasMin, hasMax, lo, hi) ==
    (IF hasMin THEN <<>> ELSE <<Exchange(wavelength_min.get, lo, "wavelength")>>)
        \o (IF hasMax THEN <<>> ELSE <<Exchange(wavelength_max.get, hi, "wavelength")>>)

\* the setter sending the set command before it validates the value
WavelengthExchanges_send_first(queries, value, low, high) ==
    queries \o <<Exchange(WavelengthSet(value), "", "wavelength")>>

\* what the setter puts on the transport once the bounds are known: validation
\* first, the set command only for a value that passed
WavelengthExchanges(queries, value, low, high) ==
    IF strict_range(value, low, high)
    THEN queries \o <<Exchange(WavelengthSet(value), "", "wavelength")>>
    ELSE queries

\* wavelength.setter; lo and hi are what the device answers to the bound queries
SetWavelength(i, value, lo, hi) ==
    /\ Ready(i)
    /\ ops' = ops + 1
    /\ LET at == Len(log[i])
           queries == BoundQueries(inst[i].hasMin, inst[i].hasMax, lo, hi)
           asked(cmd) == \E k \in 1..Len(queries) : queries[k].cmd = cmd
           low == IF asked(wavelength_min.get)
                  THEN StrToInt(values(lo)[1]) ELSE inst[i]._wavelength_min
           high == IF asked(wavelength_max.get)
                   THEN StrToInt(values(hi)[1]) ELSE inst[i]._wavelength_max
       IN  IF ~Flag(i, "wavelength_settable")
           THEN /\ last' = [last EXCEPT ![i] =
                       Outcome("set", "wavelength", "AttributeError", at, value, FALSE)]
                /\ UNCHANGED <<log, inst>>
           ELSE /\ inst' = [inst EXCEPT ![i].hasMin = TRUE, ![i]._wavelength_min = low,
                                        ![i].hasMax = TRUE, ![i]._wavelength_max = high]
                /\ log' = [log EXCEPT ![i] = @ \o WavelengthExchanges(queries, value, low, high)]
                /\ last' = [last EXCEPT ![i] =
                       Outcome("set", "wavelength",
                               IF strict_range(value, low, high) THEN "ok" ELSE "ValueError",
                               at, value, FALSE)]
    /\ UNCHANGED <<classDisabled, afgVars>>

\* wavelength (getter)
GetWavelength(i, reply) ==
    /\ Ready(i)
    /\ ops' = ops + 1
    /\ log' = [log EXCEPT ![i] = Append(@, Exchange(WavelengthGet, reply, "wavelength"))]
    /\ last' = [last EXCEPT ![i] =
           Outcome("get", "wavelength", "ok", Len(log[i]), StrToInt(values(reply)[1]), FALSE)]
    /\ UNCHANGED <<classDisabled, inst, afgVars>>

(***************************************************************************)
(* AFG3152CChannel: the declared descriptors.                              *)
(***************************************************************************)
\* SHAPES with the token of "sinc" cut to that of "sinusoidal"
SHAPES_shared_token ==
    << <<"sinusoidal", "SIN">>, <<"square", "SQU">>, <<"pulse", "PULS">>,
       <<"ramp", "RAMP">>, <<"prnoise", "PRN">>, <<"dc", "DC">>,
       <<"sinc", "SIN">>, <<"gaussian", "GAUS">>, <<"lorentz", "LOR">>,
       <<"erise", "ERIS">>, <<"edecay", "EDEC">>, <<"haversine", "HAV">> >>

\* SHAPES, in the order the dictionary lists them: <<logical value, wire token>>
SHAPES ==
    << <<"sinusoidal", "SIN">>, <<"square", "SQU">>, <<"pulse", "PULS">>,
       <<"ramp", "RAMP">>, <<"prnoise", "PRN">>, <<"dc", "DC">>,
       <<"sinc", "SINC">>, <<"gaussian", "GAUS">>, <<"lorentz", "LOR">>,
       <<"erise", "ERIS">>, <<"edecay", "EDEC">>, <<"haversine", "HAV">> >>

ShapeKeys == {SHAPES[k][1] : k \in 1..Len(SHAPES)}

\* limits as fractions <<numerator, denominator>>
FREQ_LIMIT == << <<1, 1000000>>, <<150000000, 1>> >>

DUTY_LIMIT == << <<1, 1000>>, <<99999, 1000>> >>

AMPLITUDE_LIMIT(u) ==
    CASE u = "VPP" -> << <<20, 1000>>, <<10, 1>> >>
      [] u = "VRMS" -> << <<7, 1000>>, <<3536, 1000>> >>
      [] u = "DBM" -> << <<-30, 1>>, <<2398, 100>> >>

UNIT_LIMIT == {"VPP", "VRMS", "DBM"}

IMP_LIMIT == << <<1, 1>>, <<10000, 1>> >>

NoLimit == << <<0, 1>>, <<0, 1>> >>

ChannelDescriptor(get, set, validator, limits, mapped) ==
    [get |-> get, set |-> set, validator |-> validator, limits |-> limits,
     map_values |-> mapped]

shape == ChannelDescriptor("function:shape?", "function:shape %s",
                           "strict_discrete_set", NoLimit, TRUE)

unit == ChannelDescriptor("voltage:unit?", "voltage:unit %s",
                          "strict_discrete_set", NoLimit, FALSE)

amp_vpp == ChannelDescriptor("voltage:amplitude?", "voltage:amplitude %eVPP",
                             "strict_range", AMPLITUDE_LIMIT("VPP"), FALSE)

amp_dbm == ChannelDescriptor("voltage:amplitude?", "voltage:amplitude %eDBM",
                             "strict_range", AMPLITUDE_LIMIT("DBM"), FALSE)

amp_vrms == ChannelDescriptor("voltage:amplitude?", "voltage:amplitude %eVRMS",
                              "strict_range", AMPLITUDE_LIMIT("VRMS"), FALSE)

offset == ChannelDescriptor("voltage:offset?", "voltage:offset %e", "none", NoLimit, FALSE)

frequency == ChannelDescriptor("frequency:fixed?", "frequency:fixed %e",
                               "strict_range", FREQ_LIMIT, FALSE)

duty == ChannelDescriptor("pulse:dcycle?", "pulse:dcycle %.3f",
                          "strict_range", DUTY_LIMIT, FALSE)

impedance == ChannelDescriptor("output:impedance?", "output:impedance %d",
                               "strict_range", IMP_LIMIT, FALSE)

ChannelAttrs ==
    {"shape", "unit", "amp_vpp", "amp_dbm", "amp_vrms", "offset", "frequency", "duty",
     "impedance"}

ChannelDescriptorOf(attr) ==
    CASE attr = "shape" -> shape
      [] attr = "unit" -> unit
      [] attr = "amp_vpp" -> amp_vpp
      [] attr = "amp_dbm" -> amp_dbm
      [] attr = "amp_vrms" -> amp_vrms
      [] attr = "offset" -> offset
      [] attr = "frequency" -> frequency
      [] attr = "duty" -> duty
      [] attr = "impedance" -> impedance

\* the validator of a descriptor applied to a value: n for numbers, s for strings
Validates(attr, n, s) ==
    LET d == ChannelDescriptorOf(attr)
    IN  CASE d.validator = "none" -> TRUE
          [] d.validator = "strict_range" ->
                 /\ n * d.limits[1][2] >= d.limits[1][1]
                 /\ n * d.limits[2][2] <= d.limits[2][1]
          [] d.validator = "strict_discrete_set" ->
                 IF attr = "shape" THEN s \in ShapeKeys ELSE s \in UNIT_LIMIT

\* values[value] of a mapped write
ShapeToken(s) == SHAPES[CHOOSE k \in 1..Len(SHAPES) : SHAPES[k][1] = s][2]

\* the key of a mapped read: the first entry of the dictionary whose token is
\* the reply; "" stands for the KeyError of a reply the dictionary lacks
ShapeKey(reply) ==
    IF \E k \in 1..Len(SHAPES) : SHAPES[k][2] = reply
    THEN SHAPES[CHOOSE k \in 1..Len(SHAPES) :
                    /\ SHAPES[k][2] = reply
                    /\ \A j \in 1..(k - 1) : SHAPES[j][2] # reply][1]
    ELSE ""

(***************************************************************************)
(* AFG3152C and its two channels on one transport.                         *)
(***************************************************************************)
Channels == {1, 2}

\* AFG3152C.__init__ creating both channels with id 1
ChannelId_same(ch) == 1

\* AFG3152C.__init__: the id each channel attribute is created with
ChannelId(ch) == ch

\* insert_id leaving the command as it came
insert_id_unprefixed(id, command) == command

\* AFG3152CChannel.insert_id
insert_id(id, command) == "source" \o IntToStr(id) \o ":" \o command

\* Channel.write / Channel.ask hand the command to the parent through insert_id
ChannelCommand(ch, command) == insert_id(ChannelId(ch), command)

TransportStep(kind, data, val) == [kind |-> kind, data |-> data, val |-> val]

\* the five writes of waveform(), in the order of the source
waveform(shp, freq, units, amplitude, off) ==
    << "function:shape " \o shp,
       "frequency:fixed " \o FormatE(freq),
       "voltage:unit " \o units,
       "voltage:amplitude " \o FormatE(amplitude) \o units,
       "voltage:offset " \o FormatE(off) \o "V" >>

Idle ==
    [pc |-> "idle", name |-> "", attr |-> "", pending |-> <<>>, start |-> 0, sent |-> 0,
     outcome |-> "", val |-> ""]

\* whether the caller of channel ch may enter an operation now
MayEnter(ch) ==
    /\ chan[ch].pc = "idle"
    /\ serialized => \A other \in Channels : chan[other].pc = "idle"

Enter(ch, name, attr, pending) ==
    chan' = [chan EXCEPT ![ch] =
                [pc |-> "busy", name |-> name, attr |-> attr, pending |-> pending,
                 start |-> Len(afgLog), sent |-> 0, outcome |-> "", val |-> ""]]

\* the caller of channel ch reads a descriptor: the query is written, then the
\* reply is read
BeginGet(ch, attr, reply) ==
    /\ MayEnter(ch)
    /\ LET d == ChannelDescriptorOf(attr)
           val == IF d.map_values THEN ShapeKey(reply) ELSE reply
       IN  Enter(ch, "get", attr,
                 << TransportStep("write", ChannelCommand(ch, d.get), ""),
                    TransportStep("read", reply, val) >>)
    /\ ops' = ops + 1
    /\ UNCHANGED <<pmVars, afgLog, serialized>>

\* the caller of channel ch writes a descriptor: validation, mapping, then the
\* one write; a value the validator refuses ends the operation at once
BeginSet(ch, attr, n, s) ==
    /\ MayEnter(ch)
    /\ LET d == ChannelDescriptorOf(attr)
           operand == IF d.map_values THEN ShapeToken(s) ELSE s
       IN  IF Validates(attr, n, s)
           THEN Enter(ch, "set", attr,
                      << TransportStep("write", ChannelCommand(ch, Format(d.set, n, operand)),
                                       IF s = "" THEN IntToStr(n) ELSE s) >>)
           ELSE chan' = [chan EXCEPT ![ch] =
                            [Idle EXCEPT !.name = "set", !.attr = attr,
                                         !.start = Len(afgLog), !.outcome = "ValueError",
                                         !.val = IF s = "" THEN IntToStr(n) ELSE s]]
    /\ ops' = ops + 1
    /\ UNCHANGED <<pmVars, afgLog, serialized>>

\* the caller of channel ch calls waveform()
BeginWaveform(ch, shp, freq, units, amplitude, off) ==
    /\ MayEnter(ch)
    /\ LET cmds == waveform(shp, freq, units, amplitude, off)
       IN  Enter(ch, "waveform", "",
                 [k \in 1..Len(cmds) |-> TransportStep("write", ChannelCommand(ch, cmds[k]), "")])
    /\ ops' = ops + 1
    /\ UNCHANGED <<pmVars, afgLog, serialized>>

\* the attributes a Channel object carries after Channel.__init__: the parent
\* back-reference and the id
ChannelFields == {"parent", "id"}

\* "output%d:state on" % number and "output%d:state off" % number
OutputCommand(number, state) == "output" \o IntToStr(number) \o ":state " \o state

\* enable() / disable() of channel ch: self.number is evaluated first; an
\* attribute the object does not carry raises AttributeError before
\* parent.write is reached, otherwise the one command goes to the parent
\* without insert_id
SwitchOutput(ch, name, state) ==
    /\ MayEnter(ch)
    /\ IF "number" \in ChannelFields
       THEN Enter(ch, name, "",
                  << TransportStep("write", OutputCommand(ChannelId(ch), state), "") >>)
       ELSE chan' = [chan EXCEPT ![ch] =
                        [Idle EXCEPT !.name = name, !.start = Len(afgLog),
                                     !.outcome = "AttributeError"]]
    /\ ops' = ops + 1
    /\ UNCHANGED <<pmVars, afgLog, serialized>>

\* AFG3152CChannel.enable
enable(ch) == SwitchOutput(ch, "enable", "on")

\* AFG3152CChannel.disable
disable(ch) == SwitchOutput(ch, "disable", "off")

\* the next transport call of the operation channel ch is in
TransportCall(ch) ==
    /\ chan[ch].pc = "busy"
    /\ LET step == Head(chan[ch].pending)
           rest == Tail(chan[ch].pending)
       IN  /\ afgLog' = Append(afgLog,
                   [kind |-> step.kind, data |-> step.data, ch |-> ch,
                    name |-> chan[ch].name, attr |-> chan[ch].attr, val |-> step.val])
           /\ chan' = [chan EXCEPT
                  ![ch].pending = rest,
                  ![ch].start = IF chan[ch].sent = 0 THEN Len(afgLog) ELSE @,
                  ![ch].sent = @ + 1,
                  ![ch].pc = IF rest = <<>> THEN "idle" ELSE "busy",
                  ![ch].val = step.val,
                  ![ch].outcome =
                      IF rest # <<>> THEN ""
                      ELSE IF chan[ch].name = "get" /\ chan[ch].attr = "shape" /\ step.val = ""
                      THEN "KeyError" ELSE "ok"]
    /\ UNCHANGED <<pmVars, ops, serialized>>

(***************************************************************************)
(* Inputs and device answers the exploration draws from.                   *)
(***************************************************************************)
SensorNames == {"TestSensor", "no sensor"}

\* 289, 290: the sensors of the test suite; 257: power sensor, wavelength fixed;
\* 291: both sensor bits; 288: neither.
FlagChoices == {289, 290, 257, 291, 288}

MinReplies == {"1000", "1600"}

MaxReplies == {"2000"}

WavelengthChoices == {900, 1500, 2500}

RangeChoices == {2}

ErrReplies == {"0,No error", "-113,Undefined header"}

ReadReplies(attr) ==
    CASE attr = "wavelength_min" -> MinReplies
      [] attr = "wavelength_max" -> MaxReplies
      [] attr = "power_auto_range" -> {"0", "1"}
      [] OTHER -> {"1"}

GatedAttrs == DISABLE_FOR_POWER_SENSOR \cup DISABLE_FOR_ENERGY_SENSOR

Init ==
    /\ classDisabled = {}
    /\ inst = [i \in Insts |-> NewInstance]
    /\ log = [i \in Insts |-> <<>>]
    /\ last = [i \in Insts |-> NoOp]
    /\ ops = 0
    /\ afgLog = <<>>
    /\ chan = [ch \in Channels |-> Idle]
    /\ serialized = TRUE

\* One instrument, every declared attribute, zero() and the wavelength property.
Next ==
    \/ \E f \in FlagChoices : Construct(1, "TestSensor", f)
    \/ \E attr \in PMAttrs : \E reply \in ReadReplies(attr) :
           ops < MaxOps /\ ReadAttr(1, attr, reply)
    \/ \E attr \in PMAttrs \ {"power_auto_range"}, v \in RangeChoices, err \in ErrReplies :
           ops < MaxOps /\ WriteAttr(1, attr, v, err)
    \/ \E b \in BOOLEAN : ops < MaxOps /\ WriteAutoRange(1, b)
    \/ ops < MaxOps /\ Zero(1)
    \/ \E v \in WavelengthChoices, lo \in MinReplies, hi \in MaxReplies :
           ops < MaxOps /\ SetWavelength(1, v, lo, hi)
    \/ \E reply \in {"1500"} : ops < MaxOps /\ GetWavelength(1, reply)

Spec == Init /\ [][Next]_vars

\* One instrument, the wavelength property and its neighbours, explored deeper.
NextWavelength ==
    \/ \E f \in FlagChoices : Construct(1, "TestSensor", f)
    \/ \E attr \in {"wavelength_min", "wavelength_max"} : \E reply \in ReadReplies(attr) :
           ops < MaxWavelengthOps /\ ReadAttr(1, attr, reply)
    \/ ops < MaxWavelengthOps /\ Zero(1)
    \/ \E v \in WavelengthChoices, lo \in MinReplies, hi \in MaxReplies :
           ops < MaxWavelengthOps /\ SetWavelength(1, v, lo, hi)
    \/ \E reply \in {"1500"} : ops < MaxWavelengthOps /\ GetWavelength(1, reply)

SpecWavelength == Init /\ [][NextWavelength]_vars

\* Several instruments of the one driver class, built in any order, and
\* accesses to the attributes the gating is about.
NextGating ==
    \/ \E i \in Insts, f \in FlagChoices : Construct(i, "TestSensor", f)
    \/ \E i \in Insts, attr \in GatedAttrs :
           ops < MaxGatingOps /\ ReadAttr(i, attr, "1")
    \/ \E i \in Insts, attr \in GatedAttrs \ {"power_auto_range"} :
           ops < MaxGatingOps /\ WriteAttr(i, attr, 2, "0,No error")
    \/ \E i \in Insts : ops < MaxGatingOps /\ WriteAutoRange(i, TRUE)

SpecGating == Init /\ [][NextGating]_vars

\* Construction alone, over every flag word the device can report.
NextFlags ==
    \E name \in SensorNames, f \in 0..MaxFlagValue : Construct(1, name, f)

SpecFlags == Init /\ [][NextFlags]_vars

WaveformShapes == {"SIN"}

ShapeReplies == {SHAPES[k][2] : k \in 1..Len(SHAPES)} \cup {"USER1"}

ChannelReplies(attr) ==
    CASE attr = "shape" -> {"SIN"}
      [] attr = "unit" -> {"VPP"}
      [] OTHER -> {"1"}

\* the values written to the channel descriptors: <<attribute, number, string>>
ChannelWrites ==
    { <<"shape", 0, "sinusoidal">>, <<"shape", 0, "triangle">>,
      <<"unit", 0, "VPP">>, <<"unit", 0, "VOLT">>,
      <<"amp_vpp", 1, "">>, <<"amp_vpp", 20, "">>,
      <<"amp_dbm", 0, "">>, <<"amp_vrms", 1, "">>, <<"offset", 0, "">>,
      <<"frequency", 1000, "">>, <<"frequency", 0, "">>,
      <<"duty", 50, "">>, <<"impedance", 50, "">> }

\* The two channels of one AFG3152C, every descriptor read and written,
\* waveform(), enable() and disable() called, the callers taking turns.
NextAFG ==
    \/ \E ch \in Channels, attr \in ChannelAttrs : \E reply \in ChannelReplies(attr) :
           ops < MaxChannelOps /\ BeginGet(ch, attr, reply)
    \/ \E ch \in Channels, w \in ChannelWrites :
           ops < MaxChannelOps /\ BeginSet(ch, w[1], w[2], w[3])
    \/ \E ch \in Channels, shp \in WaveformShapes :
           ops < MaxChannelOps /\ BeginWaveform(ch, shp, 1000000, "VPP", 1, 0)
    \/ \E ch \in Channels : ops < MaxChannelOps /\ enable(ch)
    \/ \E ch \in Channels : ops < MaxChannelOps /\ disable(ch)
    \/ \E ch \in Channels : TransportCall(ch)

SpecAFG == Init /\ [][NextAFG]_vars

InitInterleaved ==
    /\ classDisabled = {}
    /\ inst = [i \in Insts |-> NewInstance]
    /\ log = [i \in Insts |-> <<>>]
    /\ last = [i \in Insts |-> NoOp]
    /\ ops = 0
    /\ afgLog = <<>>
    /\ chan = [ch \in Channels |-> Idle]
    /\ serialized \in BOOLEAN

\* The two channels of one AFG3152C, each driven by its own caller: the
\* callers either take turns or run as two threads that the driver, which
\* holds no lock, lets through to the transport one call at a time.
NextInterleaved ==
    \/ \E ch \in Channels, attr \in {"shape", "frequency"} :
           \E reply \in ChannelReplies(attr) :
               ops < MaxInterleavedOps /\ BeginGet(ch, attr, reply)
    \/ \E ch \in Channels, w \in {<<"shape", 0, "square">>, <<"frequency", 1000, "">>,
                                   <<"frequency", 0, "">>} :
           ops < MaxInterleavedOps /\ BeginSet(ch, w[1], w[2], w[3])
    \/ \E ch \in Channels, shp \in WaveformShapes :
           ops < MaxInterleavedOps /\ BeginWaveform(ch, shp, 1000000, "VPP", 1, 0)
    \/ \E ch \in Channels : TransportCall(ch)

SpecInterleaved == InitInterleaved /\ [][NextInterleaved]_vars

\* The two mapped descriptors: power_auto_range on a power sensor, shape on
\* channel 1, every logical value written and every token answered.
NextMap ==
    \/ Construct(1, "TestSensor", 289)
    \/ \E b \in BOOLEAN : ops < MaxMapOps /\ WriteAutoRange(1, b)
    \/ \E reply \in {"0", "1"} : ops < MaxMapOps /\ ReadAttr(1, "power_auto_range", reply)
    \/ \E v \in ShapeKeys \cup {"triangle"} : ops < MaxMapOps /\ BeginSet(1, "shape", 0, v)
    \/ \E reply \in ShapeReplies : ops < MaxMapOps /\ BeginGet(1, "shape", reply)
    \/ TransportCall(1)

SpecMap == Init /\ [][NextMap]_vars

(***************************************************************************)
(* Properties.                                                             *)
(***************************************************************************)
Commands(i) == [k \in 1..Len(log[i]) |-> log[i][k].cmd]

\* the exchanges the most recent operation on instance i put on the transport
Sent(i) == SubSeq(log[i], last[i].at + 1, Len(log[i]))

SentCommands(i) == [k \in 1..Len(Sent(i)) |-> Sent(i)[k].cmd]

\* the names the gating is to disable for a sensor with these two flag bits
GatedFor(isPower, isEnergy) ==
    (IF isPower THEN {"energy", "energy_range"} ELSE {})
        \cup (IF isEnergy THEN {"power", "power_range", "power_auto_range"} ELSE {})

DisabledOn(i) == {attr \in PMAttrs : Lookup(i, attr) = "disabled"}

\* C1: the attributes disabled on an instance are exactly those its own two
\* sensor flags call for, whatever other instances were built before or after
\* it; an instance not built yet has none disabled, and the namespace of the
\* ThorlabsPM100USB class itself never gains a disabled name.
C1_GatingIsInstanceScoped ==
    /\ classDisabled = {}
    /\ \A i \in Insts :
        /\ inst[i].state = "ready" =>
               DisabledOn(i) = GatedFor(Flag(i, "is_power_sensor"), Flag(i, "is_energy_sensor"))
        /\ inst[i].state # "ready" => DisabledOn(i) = {}
        /\ (last[i].op \in {"get", "set"} /\ last[i].attr \in GatedAttrs) =>
               (last[i].outcome = "AttributeError"
                    <=> last[i].attr \in GatedFor(Flag(i, "is_power_sensor"),
                                                  Flag(i, "is_energy_sensor")))

\* C1 witness: a power sensor and an energy sensor alive together, and a read
\* of power answered on the one while it is disabled on the other.
C1_Witness ==
    \E i, j \in Insts :
        /\ inst[i].state = "ready" /\ inst[j].state = "ready"
        /\ Flag(i, "is_power_sensor") /\ ~Flag(i, "is_energy_sensor")
        /\ Flag(j, "is_energy_sensor") /\ ~Flag(j, "is_power_sensor")
        /\ "power" \in DisabledOn(j)
        /\ last[i].op = "get" /\ last[i].attr = "power" /\ last[i].outcome = "ok"

IsGatedCommand(i, cmd) ==
    \/ /\ Flag(i, "is_power_sensor")
       /\ StartsWith(cmd, "MEAS:ENER") \/ StartsWith(cmd, "SENS:ENER")
    \/ /\ Flag(i, "is_energy_sensor")
       /\ StartsWith(cmd, "MEAS:POW") \/ StartsWith(cmd, "SENS:POW")

\* C2: after construction, on a power sensor every read and write of energy
\* and energy_range, and on an energy sensor every read and write of power,
\* power_range and power_auto_range, raises AttributeError and puts nothing on
\* the transport, so no command of a gated attribute is ever sent; a read of
\* any other declared attribute, and a write of any other settable one, is
\* carried out.
C2_GatedStaysDisabled ==
    inst[1].state = "ready" =>
        /\ \A k \in 1..Len(log[1]) : ~IsGatedCommand(1, log[1][k].cmd)
        /\ (last[1].op \in {"get", "set"} /\ last[1].attr \in PMAttrs) =>
               IF last[1].attr \in GatedFor(Flag(1, "is_power_sensor"),
                                            Flag(1, "is_energy_sensor"))
               THEN last[1].outcome = "AttributeError" /\ Sent(1) = <<>>
               ELSE /\ last[1].outcome # "AttributeError"
                    /\ last[1].op = "get" =>
                           SentCommands(1) = <<PMDescriptor(last[1].attr).get>>
                    /\ (last[1].op = "set" /\ PMDescriptor(last[1].attr).set # NoCommand) =>
                           Len(Sent(1)) >= 1

\* C2 witness: on a power sensor a write of energy_range was refused after
\* another operation had already used the transport.
C2_Witness ==
    /\ inst[1].state = "ready"
    /\ Flag(1, "is_power_sensor")
    /\ last[1].op = "set" /\ last[1].attr = "energy_range"
    /\ last[1].outcome = "AttributeError"
    /\ Len(log[1]) >= 3

IsWavelengthWrite(i) == last[i].op = "set" /\ last[i].attr = "wavelength"

\* a wavelength write before the most recent operation already asked for the bounds
BoundsAskedBefore(i) ==
    \E k \in 1..last[i].at : log[i][k].by = "wavelength" /\ log[i][k].cmd = wavelength_min.get

ReportsTestBounds(i) == inst[i]._wavelength_min = 1000 /\ inst[i]._wavelength_max = 2000

\* C3 as stated: with bounds 1000 and 2000 a wavelength write outside them
\* fails validation and puts nothing at all on the transport, first write or
\* later one.
C3_RejectedWriteSendsNothing ==
    (inst[1].state = "ready" /\ IsWavelengthWrite(1) /\ ReportsTestBounds(1)
         /\ ~strict_range(last[1].n, 1000, 2000)) =>
        (last[1].outcome = "ValueError" /\ Sent(1) = <<>>)

\* C3 amended: with bounds 1000 and 2000 a wavelength write outside them fails
\* validation and never sends a set command; a later write puts nothing on the
\* transport, and the first write of the instance puts exactly the two bound
\* queries on it, MIN then MAX, which validation needs.
C3_RejectedWriteSendsNoSetCommand ==
    (inst[1].state = "ready" /\ IsWavelengthWrite(1) /\ ReportsTestBounds(1)
         /\ ~strict_range(last[1].n, 1000, 2000)) =>
        /\ last[1].outcome = "ValueError"
        /\ SentCommands(1) =
               IF BoundsAskedBefore(1) THEN <<>>
               ELSE <<"SENS:CORR:WAV? MIN", "SENS:CORR:WAV? MAX">>

\* C3 witness: the value 2500 rejected on a write that is not the first one.
C3_Witness ==
    /\ inst[1].state = "ready" /\ IsWavelengthWrite(1) /\ ReportsTestBounds(1)
    /\ last[1].n = 2500 /\ last[1].outcome = "ValueError"
    /\ BoundsAskedBefore(1)
    /\ Sent(1) = <<>>

\* C4: the first accepted wavelength write of a fresh instance leaves on the
\* transport exactly the identity query, 'SENS:CORR:WAV? MIN',
\* 'SENS:CORR:WAV? MAX' and 'SENS:CORR:WAV <value>', in this order.
C4_FirstWriteSequence ==
    (inst[1].state = "ready" /\ IsWavelengthWrite(1) /\ last[1].outcome = "ok"
         /\ last[1].at = 1) =>
        Commands(1) = <<"SYST:SENSOR:IDN?", "SENS:CORR:WAV? MIN", "SENS:CORR:WAV? MAX",
                        "SENS:CORR:WAV " \o IntToStr(last[1].n)>>

ErrorCheckedPrefix(attr) ==
    CASE attr = "power_range" -> "SENS:POW:RANG "
      [] attr = "energy_range" -> "SENS:ENER:RANG "

\* C5: a write of power_range or energy_range that the gating lets through
\* sends the set command, then 'SYST:ERR?' and nothing more; it fails with
\* InstrumentError exactly when the answered error code is not 0.
C5_ErrorCheckedWrite ==
    (inst[1].state = "ready" /\ last[1].op = "set"
         /\ last[1].attr \in {"power_range", "energy_range"}
         /\ last[1].outcome # "AttributeError") =>
        /\ Len(Sent(1)) = 2
        /\ Sent(1)[1].cmd = ErrorCheckedPrefix(last[1].attr) \o IntToStr(last[1].n)
        /\ Sent(1)[1].reply = ""
        /\ Sent(1)[2].cmd = "SYST:ERR?"
        /\ last[1].outcome =
               IF StartsWith(Sent(1)[2].reply, "0,") THEN "ok" ELSE "InstrumentError"

\* C5 witness: a write of energy_range failed on the device's error code, and
\* before it a write of power_range or energy_range went through with code 0.
C5_Witness ==
    /\ inst[1].state = "ready"
    /\ last[1].op = "set" /\ last[1].attr = "energy_range"
    /\ last[1].outcome = "InstrumentError"
    /\ \E k \in 1..last[1].at : log[1][k].cmd = "SYST:ERR?" /\ log[1][k].reply = "0,No error"

Bit(f, weight) == (f \div weight) % 2 = 1

\* the flag word and the sensor name of the identity reply on the transport
ReportedFlags(i) == StrToInt(values(log[i][1].reply)[6])

ReportedName(i) == values(log[i][1].reply)[1]

\* C6: for a flag word f in 0..511 construction succeeds and sets
\* is_power_sensor to the bit of value 1 of f, is_energy_sensor to the bit of
\* value 2, response_settable to 16, wavelength_settable to 32, tau_settable to
\* 64 and has_temperature_sensor to 256; 289 is a power sensor and no energy
\* sensor.
C6_FlagDecoding ==
    (last[1].op = "init" /\ ReportedName(1) # "no sensor" /\ ReportedFlags(1) \in 0..511) =>
        LET f == ReportedFlags(1)
        IN  /\ inst[1].state = "ready"
            /\ Flag(1, "is_power_sensor") = Bit(f, 1)
            /\ Flag(1, "is_energy_sensor") = Bit(f, 2)
            /\ Flag(1, "response_settable") = Bit(f, 16)
            /\ Flag(1, "wavelength_settable") = Bit(f, 32)
            /\ Flag(1, "tau_settable") = Bit(f, 64)
            /\ Flag(1, "has_temperature_sensor") = Bit(f, 256)
            /\ f = 289 => (Flag(1, "is_power_sensor") /\ ~Flag(1, "is_energy_sensor"))

\* C6 witness: the flag word 289 of the test suite, decoded.
C6_Witness ==
    /\ inst[1].state = "ready"
    /\ log[1][1].reply = "TestSensor,SerialNum,29-APR-2025,1,0,289"
    /\ Flag(1, "is_power_sensor") /\ ~Flag(1, "is_energy_sensor")
    /\ Flag(1, "wavelength_settable") /\ Flag(1, "has_temperature_sensor")
    /\ ~Flag(1, "response_settable") /\ ~Flag(1, "tau_settable")

\* positions of the transport log where the wavelength setter sent cmd
SetterSent(i, cmd) ==
    {k \in 1..Len(log[i]) : log[i][k].by = "wavelength" /\ log[i][k].cmd = cmd}

\* positions of the transport log holding a wavelength set command
SetCommands(i) ==
    {k \in 1..Len(log[i]) :
        log[i][k].by = "wavelength" /\ StartsWith(log[i][k].cmd, "SENSE:CORR:WAV ")}

\* the bound the device answered to the setter's query cmd
AnsweredBound(i, cmd) ==
    StrToInt(log[i][CHOOSE k \in SetterSent(i, cmd) : TRUE].reply)

\* C10: over any sequence of wavelength writes the setter sends
\* 'SENS:CORR:WAV? MIN' and 'SENS:CORR:WAV? MAX' at most once each, both before
\* the first wavelength set command, and every write, the later ones included,
\* is accepted exactly when its value lies within the two bounds answered to
\* those queries.
C10_BoundsRequestedOnce ==
    inst[1].state = "ready" =>
        /\ Cardinality(SetterSent(1, "SENS:CORR:WAV? MIN")) <= 1
        /\ Cardinality(SetterSent(1, "SENS:CORR:WAV? MAX")) <= 1
        /\ \A q \in SetterSent(1, "SENS:CORR:WAV? MIN") \cup SetterSent(1, "SENS:CORR:WAV? MAX") :
               \A c \in SetCommands(1) : q < c
        /\ (IsWavelengthWrite(1) /\ Flag(1, "wavelength_settable")) =>
               /\ Cardinality(SetterSent(1, "SENS:CORR:WAV? MIN")) = 1
               /\ Cardinality(SetterSent(1, "SENS:CORR:WAV? MAX")) = 1
               /\ last[1].outcome =
                      IF /\ last[1].n >= AnsweredBound(1, "SENS:CORR:WAV? MIN")
                         /\ last[1].n <= AnsweredBound(1, "SENS:CORR:WAV? MAX")
                      THEN "ok" ELSE "ValueError"

\* C10 witness: a rejected write, then a read of wavelength_min that the device
\* answers with 1600, then a write of 1500 accepted against the stored bound
\* 1000 without any new query.
C10_Witness ==
    /\ inst[1].state = "ready"
    /\ IsWavelengthWrite(1) /\ last[1].n = 1500 /\ last[1].outcome = "ok"
    /\ SentCommands(1) = <<"SENSE:CORR:WAV 1500">>
    /\ inst[1]._wavelength_min = 1000
    /\ \E k \in 1..last[1].at :
           /\ log[1][k].by = "wavelength_min" /\ log[1][k].reply = "1600"
           /\ \E q \in SetterSent(1, "SENS:CORR:WAV? MIN") : q < k
    /\ SetCommands(1) = {Len(log[1])}

ChannelPrefix(ch) ==
    CASE ch = 1 -> "source1:"
      [] ch = 2 -> "source2:"

Writes == {k \in 1..Len(afgLog) : afgLog[k].kind = "write"}

\* the fixed part of a set template, up to its conversion
TemplateHead(t) == SubSeq(t, 1, PercentAt(t) - 1)

\* C7: every command a descriptor read or write, or waveform(), on ch1 puts on
\* the shared transport is 'source1:' followed by the descriptor's command,
\* and every one on ch2 is 'source2:' followed by it; none carries the other
\* channel's prefix or no prefix, after any sequence of operations on both.
C7_ChannelPrefix ==
    \A k \in Writes :
        LET e == afgLog[k]
            own == ChannelPrefix(e.ch)
        IN  /\ StartsWith(e.data, own)
            /\ \A other \in Channels \ {e.ch} : ~StartsWith(e.data, ChannelPrefix(other))
            /\ e.name = "get" => e.data = own \o ChannelDescriptorOf(e.attr).get
            /\ e.name = "set" =>
                   StartsWith(e.data, own \o TemplateHead(ChannelDescriptorOf(e.attr).set))

\* C7 witness: a frequency write on ch2 followed by a shape read on ch1, both
\* on the one transport.
C7_Witness ==
    \E j, k \in Writes :
        /\ j < k
        /\ afgLog[j].ch = 2 /\ afgLog[j].data = "source2:frequency:fixed 1.000000e+03"
        /\ afgLog[k].ch = 1 /\ afgLog[k].data = "source1:function:shape?"

\* the transport calls made so far by the operation channel ch is in, or was
\* last in, sit next to each other on the transport, all of them calls of ch,
\* its commands under the prefix of ch
Contiguous(ch) ==
    \A j \in 1..chan[ch].sent :
        LET e == afgLog[chan[ch].start + j]
        IN  /\ e.ch = ch
            /\ e.kind = "write" => StartsWith(e.data, ChannelPrefix(ch))

MappedWrites(attr) ==
    {k \in 1..Len(afgLog) : afgLog[k].name = "set" /\ afgLog[k].attr = attr}

MappedReads(attr) ==
    {k \in 1..Len(afgLog) :
        afgLog[k].name = "get" /\ afgLog[k].attr = attr /\ afgLog[k].kind = "read"}

\* the wire token a set command carries after the fixed part of its template
TokenOf(cmd, head) == SubSeq(cmd, Len(head) + 1, Len(cmd))

AutoRangeWrites ==
    {k \in 1..Len(log[1]) :
        log[1][k].by = "power_auto_range" /\ StartsWith(log[1][k].cmd, "SENS:POW:RANG:AUTO ")}

AutoRangeReads ==
    {k \in 1..Len(log[1]) :
        log[1][k].by = "power_auto_range" /\ log[1][k].cmd = "SENS:POW:RANG:AUTO?"}

TwelveShapes ==
    {"sinusoidal", "square", "pulse", "ramp", "prnoise", "dc", "sinc", "gaussian",
     "lorentz", "erise", "edecay", "haversine"}

\* C9: for shape and for power_auto_range, a read that the device answers with
\* the token some write sent gives back the logical value that write was
\* given; two writes of different logical values send different tokens; no
\* write of one of the twelve shapes, of True or of False is refused; writing
\* False sends 'SENS:POW:RANG:AUTO 0'.
C9_ValueMapRoundTrip ==
    /\ \A w \in MappedWrites("shape"), r \in MappedReads("shape") :
           TokenOf(afgLog[w].data, "source1:function:shape ") = afgLog[r].data
               => afgLog[r].val = afgLog[w].val
    /\ \A w1, w2 \in MappedWrites("shape") :
           afgLog[w1].data = afgLog[w2].data => afgLog[w1].val = afgLog[w2].val
    /\ \A w \in AutoRangeWrites, r \in AutoRangeReads :
           TokenOf(log[1][w].cmd, "SENS:POW:RANG:AUTO ") = log[1][r].reply
               => log[1][r].val = log[1][w].val
    /\ \A w1, w2 \in AutoRangeWrites :
           log[1][w1].cmd = log[1][w2].cmd => log[1][w1].val = log[1][w2].val
    /\ \A w \in AutoRangeWrites :
           log[1][w].val = "False" => log[1][w].cmd = "SENS:POW:RANG:AUTO 0"
    /\ (chan[1].name = "set" /\ chan[1].attr = "shape" /\ chan[1].outcome = "ValueError")
           => chan[1].val \notin TwelveShapes
    /\ (last[1].op = "set" /\ last[1].attr = "power_auto_range") => last[1].outcome = "ok"

\* C9 witness: 'haversine' written to shape and read back from the token HAV.
C9_Witness ==
    \E w \in MappedWrites("shape"), r \in MappedReads("shape") :
        /\ w < r
        /\ afgLog[w].val = "haversine" /\ afgLog[w].data = "source1:function:shape HAV"
        /\ afgLog[r].data = "HAV" /\ afgLog[r].val = "haversine"

\* whether the finished operation name on channel ch completed without error
\* and put exactly the one command cmd on the transport
SentExactly(ch, name, cmd) ==
    (chan[ch].name = name /\ chan[ch].pc = "idle") =>
        /\ chan[ch].outcome = "ok"
        /\ chan[ch].sent = 1
        /\ \E k \in 1..Len(afgLog) :
               /\ afgLog[k].ch = ch /\ afgLog[k].name = name
               /\ afgLog[k].kind = "write" /\ afgLog[k].data = cmd

\* C11: on the channel created with id n, enable() completes without error
\* and sends exactly the one command 'output<n>:state on' to the parent's
\* write, without the 'source<n>:' prefix, and disable() likewise sends exactly
\* 'output<n>:state off'; so ch1.enable() switches the output of channel 1 on.
C11_OutputSwitching ==
    \A ch \in Channels :
        /\ SentExactly(ch, "enable", "output" \o IntToStr(ch) \o ":state on")
        /\ SentExactly(ch, "disable", "output" \o IntToStr(ch) \o ":state off")

====
